---------------------------- MODULE Spec2Model ----------------------------
(***************************************************************************)
(* A model of src/ddpm.py: the Diffusion class (noise schedule, forward    *)
(* noising, timestep sampling, reverse sampling loop).                     *)
(*                                                                         *)
(* Numbers.  The schedule tensors beta, alpha, alpha_hat are kept as exact *)
(* rationals [n |-> numerator, d |-> denominator] in lowest terms, so the  *)
(* schedule identities are checked in exact arithmetic; float32 rounding   *)
(* and underflow of torch are not represented.  Image tensors are          *)
(* fixed-point numbers with Q units per 1.0; a product or quotient of two  *)
(* of them is rounded down to the next unit.                               *)
(*                                                                         *)
(* Tensors.  A batch of shape (n, 3, img_size, img_size) is a function     *)
(* 1..n -> (1..Pixels -> value) with Pixels = 3 * img_size * img_size.     *)
(* A 1-d integer tensor of n entries is a function 1..n -> Int.  The       *)
(* schedule tensors are indexed from 0 as in the source.                   *)
(***************************************************************************)
EXTENDS Integers, Sequences, FiniteSets, TLC

\* ------------------------------------------------------------- bounds
MaxSteps == 3      \* noise_steps is drawn from -1..MaxSteps
BetaDen  == 4      \* beta_start, beta_end are drawn from {k/BetaDen : k \in 0..BetaDen}
MaxBatch == 2      \* batch sizes n are drawn from 0..MaxBatch
ImgSize  == 1      \* the img_size the object is built with
PrecBits == 4      \* fixed-point precision of image values: Q = 2^PrecBits

Q == 2 ^ PrecBits

VARIABLES
    pc,               \* "new": not constructed; "idle": constructed, no call running;
                      \* "sampling": inside the loop of sample; "returned" / "raised":
                      \* the last call has handed a value / an exception to its caller;
                      \* "dead": __init__ raised, there is no object
    noise_steps, beta_start, beta_end, img_size,   \* self.* scalars
    beta, alpha, alpha_hat,                        \* self.* schedule tensors
    training,         \* model.training, the mode of the predictor
    op,               \* the method called last
    outcome,          \* "none" | "ok" | the exception that left the call
    n, t, x,          \* arguments / locals of the running or last call
    epsilon,          \* noise_images: the noise drawn
    predicted_noise, z, i, todo,   \* sample: loop locals; todo is the rest of the iterator
    calls,            \* sample: the invocations of model(x, t) so far, in order
    ret,              \* the value returned by the last call (<<>> when none)
    reads,            \* noise_images: the positions of alpha_hat that were read
    entry_training    \* sample: model.training when sample was entered

fields == <<noise_steps, beta_start, beta_end, img_size, beta, alpha, alpha_hat>>
locals == <<n, t, x, epsilon, predicted_noise, z, i, todo, calls, ret, reads, entry_training>>
vars == <<pc, fields, training, op, outcome, locals>>

\* ------------------------------------------------------------- rationals
RECURSIVE Gcd(_, _)
Gcd(a, b) == IF b = 0 THEN a ELSE Gcd(b, a % b)

Abs(a) == IF a < 0 THEN -a ELSE a

Rat(num, den) ==
    LET g == Gcd(Abs(num), den)
    IN  [n |-> num \div g, d |-> den \div g]

RatAdd(a, b) == Rat(a.n * b.d + b.n * a.d, a.d * b.d)
RatSub(a, b) == Rat(a.n * b.d - b.n * a.d, a.d * b.d)
RatMul(a, b) == Rat(a.n * b.n, a.d * b.d)
RatLess(a, b) == a.n * b.d < b.n * a.d
RatLeq(a, b) == a.n * b.d <= b.n * a.d
One == Rat(1, 1)
Zero == Rat(0, 1)

\* ------------------------------------------------------------- fixed point
RECURSIVE IsqrtFrom(_, _)
IsqrtFrom(v, r) == IF (r + 1) * (r + 1) > v THEN r ELSE IsqrtFrom(v, r + 1)

ToFloat(r) == (r.n * Q) \div r.d          \* a schedule entry as an image-valued number
Mul(a, b) == (a * b) \div Q
Div(a, b) == (a * Q) \div b
Sqrt(a) == IsqrtFrom(a * Q, 0)            \* torch.sqrt, for a >= 0

Pixels == 3 * img_size * img_size
Full(k, c) == [j \in 1..k |-> [p \in 1..Pixels |-> c]]

\* ------------------------------------------------------------- inputs
ImageVals == {Q \div 2, -Q}      \* pixel values of the images given to noise_images
NoiseVals == {-Q, Q}             \* values a torch.randn / randn_like draw takes
PredVals  == {0, Q}              \* values the predictor returns (0: the zero predictor)
BatchSizes == 0..MaxBatch
BetaGrid == 0..BetaDen           \* numerators of beta_start, beta_end over BetaDen
StepCounts == (-1)..MaxSteps

\* ------------------------------------------------------------- schedule
\* torch.linspace(start, end, steps): steps points from start to end inclusive
linspace(start, end, steps) ==
    [k \in 0..(steps - 1) |->
        IF steps = 1 THEN start
        ELSE RatAdd(start, RatMul(Rat(k, steps - 1), RatSub(end, start)))]

prepare_noise_schedule(start, end, steps) == linspace(start, end, steps)

OneMinus(b) == [k \in DOMAIN b |-> RatSub(One, b[k])]

RECURSIVE CumsumAt(_, _)
CumsumAt(a, k) == IF k = 0 THEN a[0] ELSE RatAdd(CumsumAt(a, k - 1), a[k])

\* a running sum where the running product is meant
cumsum(a) == [k \in DOMAIN a |-> CumsumAt(a, k)]

RECURSIVE CumprodAt(_, _)
CumprodAt(a, k) == IF k = 0 THEN a[0] ELSE RatMul(CumprodAt(a, k - 1), a[k])

\* torch.cumprod(a, dim=0)
cumprod(a) == [k \in DOMAIN a |-> CumprodAt(a, k)]

NoLocals ==
    /\ n' = 0 /\ t' = <<>> /\ x' = <<>> /\ epsilon' = <<>>
    /\ predicted_noise' = <<>> /\ z' = <<>> /\ i' = 0 /\ todo' = <<>>
    /\ calls' = <<>> /\ ret' = <<>> /\ reads' = {} /\ entry_training' = training

\* Diffusion.__init__(noise_steps, beta_start, beta_end, img_size)
DiffusionInit ==
    /\ pc = "new"
    /\ \E steps \in StepCounts, bs \in BetaGrid, be \in BetaGrid :
        /\ noise_steps' = steps
        /\ beta_start' = Rat(bs, BetaDen)
        /\ beta_end' = Rat(be, BetaDen)
        /\ img_size' = ImgSize
        /\ IF steps < 0
           THEN \* torch.linspace raises for a negative number of steps
                /\ beta' = <<>> /\ alpha' = <<>> /\ alpha_hat' = <<>>
                /\ outcome' = "RuntimeError"
                /\ pc' = "dead"
           ELSE /\ beta' = prepare_noise_schedule(beta_start', beta_end', steps)
                /\ alpha' = OneMinus(beta')
                /\ alpha_hat' = cumprod(alpha')
                /\ outcome' = "ok"
                /\ pc' = "idle"
    /\ op' = "__init__"
    /\ NoLocals
    /\ UNCHANGED training

\* ------------------------------------------------------------- sample_timesteps
\* the values torch.randint(low, high, ...) draws from
Randint(low, high) == low..(high - 1)

\* draws that start at 0 instead of 1
sample_timesteps_from_zero(k) == [1..k -> Randint(0, noise_steps)]

sample_timesteps(k) == [1..k -> Randint(1, noise_steps)]

SampleTimesteps ==
    /\ pc = "idle"
    /\ \E k \in BatchSizes :
        /\ n' = k
        /\ IF Randint(1, noise_steps) = {}
           THEN \* torch.randint raises when low >= high
                /\ ret' = <<>> /\ outcome' = "RuntimeError" /\ pc' = "raised"
           ELSE /\ ret' \in sample_timesteps(k) /\ outcome' = "ok" /\ pc' = "returned"
    /\ op' = "sample_timesteps"
    /\ t' = <<>> /\ x' = <<>> /\ epsilon' = <<>>
    /\ predicted_noise' = <<>> /\ z' = <<>> /\ i' = 0 /\ todo' = <<>>
    /\ calls' = <<>> /\ reads' = {} /\ entry_training' = training
    /\ UNCHANGED <<fields, training>>

\* ------------------------------------------------------------- noise_images
\* Indexing a tensor of `len` entries with k: a negative k counts from the end,
\* anything outside -len..len-1 raises IndexError.
InBounds(k, len) == -len <= k /\ k < len
Position(k, len) == IF k < 0 THEN k + len ELSE k

\* one pixel of line 35: sqrt_alpha_hat * x * sqrt_cum_sinus_alpha_hat * epsilon
NoisedPixel(a, xv, b, e) == Mul(Mul(Mul(a, xv), b), e)

noise_images(xs, ts, eps) ==
    [j \in DOMAIN xs |->
        LET ah == ToFloat(alpha_hat[Position(ts[j], noise_steps)])
            sqrt_alpha_hat == Sqrt(ah)
            sqrt_cum_sinus_alpha_hat == Sqrt(Q - ah)
        IN  [p \in DOMAIN xs[j] |->
                NoisedPixel(sqrt_alpha_hat, xs[j][p], sqrt_cum_sinus_alpha_hat, eps[j][p])]]

TimestepArgs == (-1)..noise_steps     \* timestep values handed to noise_images

NoiseImages ==
    /\ pc = "idle"
    /\ \E k \in BatchSizes, c \in ImageVals, e \in NoiseVals : \E ts \in [1..k -> TimestepArgs] :
        /\ n' = k
        /\ x' = Full(k, c)
        /\ t' = ts
        /\ IF \A j \in 1..k : InBounds(ts[j], noise_steps)
           THEN /\ reads' = {Position(ts[j], noise_steps) : j \in 1..k}
                /\ epsilon' = Full(k, e)
                /\ ret' = <<noise_images(x', ts, epsilon'), epsilon'>>
                /\ outcome' = "ok"
                /\ pc' = "returned"
           ELSE \* self.alpha_hat[t] raises on line 32, before the noise is drawn
                /\ reads' = {}
                /\ epsilon' = <<>>
                /\ ret' = <<>>
                /\ outcome' = "IndexError"
                /\ pc' = "raised"
    /\ op' = "noise_images"
    /\ predicted_noise' = <<>> /\ z' = <<>> /\ i' = 0 /\ todo' = <<>>
    /\ calls' = <<>> /\ entry_training' = training
    /\ UNCHANGED <<fields, training>>

\* ------------------------------------------------------------- sample
RECURSIVE ReversedRange(_, _)
\* reversed(range(lo, hi)): hi-1, hi-2, ..., lo
ReversedRange(lo, hi) == IF hi <= lo THEN <<>> ELSE <<hi - 1>> \o ReversedRange(lo, hi - 1)

\* range(1, steps) walked upwards, the reversal forgotten
SampleRangeForward(steps) == [k \in 1..(steps - 1) |-> k]

\* the iterator of line 48
SampleRange(steps) == ReversedRange(1, steps)

\* noise drawn at the last step too
DrawsNoiseAlways(k) == k > 0

\* line 54: whether the step for counter k draws noise
DrawsNoise(k) == k > 1

\* the three coefficients of line 59, from the schedule entries at counter k
InvSqrtAlpha(k) == Div(Q, Sqrt(ToFloat(alpha[k])))
NoiseCoef(k) == Div(Q - ToFloat(alpha[k]), Sqrt(Q - ToFloat(alpha_hat[k])))
SqrtBeta(k) == Sqrt(ToFloat(beta[k]))

\* one pixel of line 59
ReverseUpdate(xv, pv, zv, c1, c2, c3) == Mul(c1, xv - Mul(c2, pv)) + Mul(c3, zv)

Clamp(v, lo, hi) == IF v < lo THEN lo ELSE IF v > hi THEN hi ELSE v

\* .type(torch.uint8): the fraction is dropped; a value outside 0..255 wraps
ToUint8(v) == (IF v >= 0 THEN v \div Q ELSE -((-v) \div Q)) % 256

\* the quantisation without the clamp
PostProcessNoClamp(v) == ToUint8(((v + Q) \div 2) * 255)

\* one pixel of lines 63-64
PostProcess(v) == ToUint8(((Clamp(v, -Q, Q) + Q) \div 2) * 255)

\* Every division of line 59 has a nonzero divisor, for each counter the loop visits.
\* It holds of every schedule with 0 < beta_start < beta_end < 1.  A schedule with
\* alpha[k] = 0 or alpha_hat[k] = 1 makes torch produce inf / nan, which the
\* fixed-point values do not represent: sample is explored on the other schedules.
FiniteReverse ==
    \A k \in 1..(noise_steps - 1) :
        /\ Sqrt(ToFloat(alpha[k])) # 0
        /\ Sqrt(Q - ToFloat(alpha_hat[k])) # 0

\* lines 42-47: model.eval(), x = torch.randn(...), the iterator is built
SampleEnter ==
    /\ pc = "idle"
    /\ FiniteReverse
    /\ \E k \in BatchSizes, c \in NoiseVals :
        /\ n' = k
        /\ x' = Full(k, c)
    /\ entry_training' = training
    /\ training' = FALSE
    /\ todo' = SampleRange(noise_steps)
    /\ calls' = <<>>
    /\ op' = "sample"
    /\ outcome' = "none"
    /\ pc' = "sampling"
    /\ t' = <<>> /\ epsilon' = <<>> /\ predicted_noise' = <<>> /\ z' = <<>>
    /\ i' = 0 /\ ret' = <<>> /\ reads' = {}
    /\ UNCHANGED fields

\* lines 48-59: one iteration in which model(x, t) returns
SampleStep ==
    /\ pc = "sampling"
    /\ todo # <<>>
    /\ i' = Head(todo)
    /\ todo' = Tail(todo)
    /\ t' = [j \in 1..n |-> i']
    /\ calls' = Append(calls, [x |-> x, t |-> t'])
    /\ \E pv \in PredVals : predicted_noise' = Full(n, pv)
    /\ IF DrawsNoise(i')
       THEN \E zv \in NoiseVals : z' = Full(n, zv)
       ELSE z' = Full(n, 0)
    /\ x' = [j \in 1..n |->
                LET c1 == InvSqrtAlpha(t'[j])
                    c2 == NoiseCoef(t'[j])
                    c3 == SqrtBeta(t'[j])
                IN  [p \in 1..Pixels |->
                        ReverseUpdate(x[j][p], predicted_noise'[j][p], z'[j][p], c1, c2, c3)]]
    /\ UNCHANGED <<pc, fields, training, op, outcome, n, epsilon, ret, reads, entry_training>>

\* line 50 raises: the exception leaves sample, nothing after line 50 runs
SampleRaise ==
    /\ pc = "sampling"
    /\ todo # <<>>
    /\ i' = Head(todo)
    /\ todo' = Tail(todo)
    /\ t' = [j \in 1..n |-> i']
    /\ calls' = Append(calls, [x |-> x, t |-> t'])
    /\ outcome' = "PredictorError"
    /\ pc' = "raised"
    /\ UNCHANGED <<fields, training, op, n, x, epsilon, predicted_noise, z, ret, reads,
                   entry_training>>

\* lines 61-66: model.train(), the batch is quantised and returned
SampleReturn ==
    /\ pc = "sampling"
    /\ todo = <<>>
    /\ training' = TRUE
    /\ ret' = [j \in 1..n |-> [p \in 1..Pixels |-> PostProcess(x[j][p])]]
    /\ outcome' = "ok"
    /\ pc' = "returned"
    /\ UNCHANGED <<fields, op, n, t, x, epsilon, predicted_noise, z, i, todo, calls, reads,
                   entry_training>>

\* ------------------------------------------------------------- caller
\* The caller goes on after a call: the finished call's frame and result are gone,
\* the object and the predictor stay as the call left them.
CallerContinues ==
    /\ pc \in {"returned", "raised"}
    /\ pc' = "idle"
    /\ op' = "none" /\ outcome' = "none"
    /\ NoLocals
    /\ UNCHANGED <<fields, training>>

\* ------------------------------------------------------------- specification
\* Before Diffusion(...) is called.  The predictor is the caller's object, handed to
\* sample as `model`: it may be in training or in evaluation mode.
Init ==
    /\ pc = "new"
    /\ noise_steps = 0 /\ beta_start = Zero /\ beta_end = Zero /\ img_size = 0
    /\ beta = <<>> /\ alpha = <<>> /\ alpha_hat = <<>>
    /\ training \in BOOLEAN
    /\ op = "none" /\ outcome = "none"
    /\ n = 0 /\ t = <<>> /\ x = <<>> /\ epsilon = <<>>
    /\ predicted_noise = <<>> /\ z = <<>> /\ i = 0 /\ todo = <<>>
    /\ calls = <<>> /\ ret = <<>> /\ reads = {} /\ entry_training = training

Next ==
    \/ DiffusionInit
    \/ SampleTimesteps
    \/ NoiseImages
    \/ SampleEnter
    \/ SampleStep
    \/ SampleRaise
    \/ SampleReturn
    \/ CallerContinues

Spec == Init /\ [][Next]_vars

\* ------------------------------------------------------------- properties
Built == pc \notin {"new", "dead"}

\* stepCount >= 2 and 0 < betaStart < betaEnd < 1
ValidParams ==
    /\ noise_steps >= 2
    /\ RatLess(Zero, beta_start)
    /\ RatLess(beta_start, beta_end)
    /\ RatLess(beta_end, One)

InSample == op = "sample"
SampleReturned == op = "sample" /\ pc = "returned"
SampleRaised == op = "sample" /\ pc = "raised"

\* C1: a sample call that returns has invoked the predictor exactly noise_steps - 1
\* times, the k-th time with n copies of noise_steps - k (so with noise_steps - 1
\* down to 1, never 0); while the call runs, the invocations so far are that prefix.
C1_PredictorInvocations ==
    (InSample /\ noise_steps >= 2) =>
        /\ \A k \in 1..Len(calls) :
            /\ calls[k].t = [j \in 1..n |-> noise_steps - k]
            /\ noise_steps - k >= 1
        /\ pc = "returned" => Len(calls) = noise_steps - 1

C1_Witness ==
    /\ SampleReturned /\ noise_steps = 3 /\ n = 2
    /\ Len(calls) = 2 /\ calls[1].t[2] = 2 /\ calls[2].t[1] = 1

\* C2: on a valid schedule and timesteps in 1..noise_steps-1, noise_images returns the noise it drew together with
\* sqrt(alpha_hat[t]) * x + sqrt(1 - alpha_hat[t]) * noise, pixel by pixel.
C2_AdditiveNoising ==
    (op = "noise_images" /\ pc = "returned" /\ ValidParams
        /\ \A j \in 1..n : t[j] \in 1..(noise_steps - 1)) =>
        /\ ret[2] = epsilon
        /\ \A j \in 1..n : \A p \in 1..Pixels :
            LET ah == ToFloat(alpha_hat[t[j]])
            IN  ret[1][j][p] = Mul(Sqrt(ah), x[j][p]) + Mul(Sqrt(Q - ah), epsilon[j][p])

\* C3: every pixel sample returns is an integer in 0..255; a state value of 1 or
\* more comes out as 255 and a state value of -1 or less as 0.
C3_OutputPixels ==
    SampleReturned =>
        /\ DOMAIN ret = 1..n
        /\ \A j \in 1..n : \A p \in 1..Pixels :
            /\ ret[j][p] \in 0..255
            /\ x[j][p] >= Q => ret[j][p] = 255
            /\ x[j][p] <= -Q => ret[j][p] = 0

C3_Witness ==
    /\ SampleReturned /\ n >= 1 /\ Len(calls) >= 1
    /\ x[1][1] > Q /\ ret[1][1] = 255

\* C4: with noise_steps >= 2, sample_timesteps(n) returns exactly n integers, each
\* in 1..noise_steps-1, and changes no field of the object nor the predictor's mode.
C4_SampleTimesteps ==
    [][(pc = "idle" /\ op' = "sample_timesteps" /\ noise_steps >= 2) =>
        /\ pc' = "returned"
        /\ DOMAIN ret' = 1..n'
        /\ \A j \in 1..n' : ret'[j] \in Int /\ 1 <= ret'[j] /\ ret'[j] < noise_steps
        /\ UNCHANGED <<fields, training>>]_vars

C4_Witness ==
    /\ op = "sample_timesteps" /\ pc = "returned" /\ noise_steps >= 3
    /\ n = 2 /\ ret[1] = 1 /\ ret[2] = noise_steps - 1

\* C5: construction with noise_steps < 2, beta_start >= beta_end, or a bound outside
\* (0, 1) fails and leaves no schedule.
C5_InvalidConfigRejected ==
    (pc # "new" /\ ~ValidParams) =>
        /\ pc = "dead"
        /\ outcome # "ok"
        /\ DOMAIN beta = {} /\ DOMAIN alpha = {} /\ DOMAIN alpha_hat = {}

\* C6: on a valid schedule, noise_images with some timestep outside 1..noise_steps-1 ends in an error,
\* returns nothing and reads no schedule entry for such a timestep.
C6_OutOfRangeRejected ==
    (op = "noise_images" /\ pc \in {"returned", "raised"} /\ ValidParams
        /\ \E j \in 1..n : t[j] \notin 1..(noise_steps - 1)) =>
        /\ pc = "raised"
        /\ outcome = "IndexError"
        /\ ret = <<>>
        /\ reads = {}

\* C7: on a valid schedule, when the predictor fails inside sample, the failure reaches the caller, the
\* predictor is not invoked again, nothing is returned, and the schedule and the
\* predictor's mode are as they were when sample was entered.
C7_FailureLeavesNoTrace ==
    [][(op' = "sample" /\ pc' = "raised" /\ ValidParams) =>
        /\ outcome' = "PredictorError"
        /\ ret' = <<>>
        /\ Len(calls') <= Len(calls) + 1
        /\ fields' = fields
        /\ training' = entry_training']_vars

\* C8: on a valid schedule, a sample call that returns leaves beta, alpha, alpha_hat unchanged, and the
\* predictor's mode at return is its mode at entry.
C8_SampleKeepsMode ==
    [][(op' = "sample" /\ ValidParams) =>
        /\ fields' = fields
        /\ pc' = "returned" => training' = entry_training']_vars

C10_StepInputAndNoise ==
    [][(pc = "sampling" /\ pc' = "sampling" /\ Len(calls') = Len(calls) + 1) =>
        /\ calls'[Len(calls')].x = x
        /\ calls'[Len(calls')].t = [j \in 1..n |-> i']
        /\ i' > 1 => \E zv \in NoiseVals : z' = Full(n, zv)
        /\ i' = 1 => z' = Full(n, 0)
        /\ i' = 1 => x' = [j \in 1..n |-> [p \in 1..Pixels |->
                              Mul(InvSqrtAlpha(1), x[j][p] - Mul(NoiseCoef(1), predicted_noise'[j][p]))]]
       ]_vars

C10_Witness ==
    /\ InSample /\ pc = "sampling" /\ n >= 1 /\ Len(calls) >= 2
    /\ i = 1 /\ z = Full(n, 0) /\ calls[2].x # calls[1].x
=============================================================================
